---- MODULE Spec2Model ----
(***************************************************************************)
(* The scull FIFO character device (driver/scull.c): a ring of             *)
(* scull_fifo_size slots, each a ssize_t length followed by                *)
(* scull_fifo_elemsz payload bytes, guarded by two counting semaphores     *)
(* (writer = free slots, reader = filled slots) and scull_mutex.           *)
(*                                                                         *)
(* Pointers are byte offsets from scull_message_queue.  Every statement of *)
(* scull_read / scull_write that touches shared state is one action; the   *)
(* kernel primitives (down_interruptible, mutex_lock_interruptible, up,    *)
(* mutex_unlock, copy_to_user, copy_from_user) are modelled by their       *)
(* documented behaviour.                                                   *)
(***************************************************************************)
EXTENDS Integers, Sequences, FiniteSets, TLC

\* Module parameters (scull.c:39-40), scaled down.
scull_fifo_size == 2
scull_fifo_elemsz == 2
\* Total number of read/write calls made in one behaviour.
MaxCalls == 3

SizeofSsize == 8
EFAULT == 14

\* The threads that call scull_write and those that call scull_read.
WriterSeq == <<"w1", "w2">>
ReaderSeq == <<"r1", "r2">>
Writers == {WriterSeq[i] : i \in DOMAIN WriterSeq}
Readers == {ReaderSeq[i] : i \in DOMAIN ReaderSeq}
Threads == Writers \cup Readers
Free == "free"

\* The thread that loads the module (scull_init_module); pc[Insmod] is its
\* position.
Insmod == "insmod"

\* A NULL pointer: head, end and scull_message_queue before kmalloc.
Null == 0 - 1

\* One slot: header + payload; the whole ring (kmalloc size, scull.c:248).
SlotBytes == SizeofSsize + scull_fifo_elemsz
RingBytes == scull_fifo_size * SlotBytes
SlotOffsets == {i * SlotBytes : i \in 0 .. scull_fifo_size - 1}

\* The offsets a cursor can hold: the slots, and the end of the ring, where
\* a cursor points between its two assignments (scull.c:104-105, 139-140).
\* scull_message_queue maps each to the memory found there; what follows
\* the ring is memory of the kernel heap that is not the driver's.
MemOffsets == SlotOffsets \cup {RingBytes}

\* kmalloc does not zero the ring: a length field never stored by a write
\* holds an arbitrary ssize_t (negative, or larger than a payload).
GarbageLens == {0 - 1, scull_fifo_elemsz + 1}
GarbageByte == 0

\* Arguments of the calls.
WriteCounts == {1, scull_fifo_elemsz + 1}
ReadCounts == {1, scull_fifo_elemsz + 1}
\* The source buffer of the id-th call: count distinct bytes that identify it.
UserBuf(id, count) == [i \in 1 .. count |-> 10 * id + i]

VARIABLES
  writer,      \* count of semaphore writer (free slots)
  reader,      \* count of semaphore reader (filled slots)
  scull_mutex, \* owner of scull_mutex, or Free
  head,        \* head - scull_message_queue
  end,         \* end - scull_message_queue
  scull_message_queue, \* the ring: slot offset -> [len, data]
  pc,          \* per thread: the statement it is about to execute
  loc,         \* per thread: the locals of the call in progress
  calls,       \* number of calls made so far
  eff,         \* per thread: what the call in progress has changed so far
  ret,         \* per thread: what its last completed call returned
  wlog,        \* successful writes in order of return: the count asked
               \* for (req), the source (src), the value returned (n) and
               \* the bytes accepted (data)
  rlog,        \* successful reads in order of return: the count asked for
               \* (req), the value returned (n), the bytes copied out (data)
               \* and the head slot's length under the mutex (headLen)
  failed,      \* some call has been interrupted or has faulted
  overlap      \* two reads, or two writes, have been in progress together

vars == <<writer, reader, scull_mutex, head, end, scull_message_queue, pc, loc, calls,
          eff, ret, wlog, rlog, failed, overlap>>

shared == <<writer, reader, scull_mutex, head, end, scull_message_queue>>

\* The locals of a call: dataPtr (and sizePtr), dataSize, count, and the
\* user buffer.  req, id and headLen are not in the code: the count the call
\* was made with, the number of the call, and the head slot's length as it
\* was when scull_read held the permit and the mutex.
NoLoc == [dataPtr |-> 0, dataSize |-> 0, count |-> 0, buf |-> <<>>, req |-> 0,
          id |-> 0, headLen |-> 0]
NoEff == [dw |-> 0, dr |-> 0, dhead |-> 0, dend |-> 0, dmem |-> 0]
NoRet == [code |-> "none", why |-> "none"]

\* The memory kmalloc returned (scull.c:248), of which the first k slots
\* have since held a record of scull_fifo_elemsz bytes GarbageByte.
RingAfter(k, g) ==
  [p \in MemOffsets |->
     [len |-> IF p < k * SlotBytes THEN scull_fifo_elemsz ELSE g,
      data |-> [i \in 1 .. scull_fifo_elemsz |-> GarbageByte]]]

\* The slots the cursors start at: the first, where scull_init_module puts
\* them, and the last, from which the next move wraps.
StartSlots == {0, scull_fifo_size - 1}

\* The empty queue with no call in progress: as scull_init_module leaves
\* it on its success path (scull.c:248-259, k = 0), or after k writes of
\* scull_fifo_elemsz bytes and the k reads that consumed them have
\* returned.
Init ==
  /\ writer = scull_fifo_size
  /\ reader = 0
  /\ scull_mutex = Free
  /\ \E k \in StartSlots, g \in GarbageLens :
       /\ head = k * SlotBytes
       /\ end = k * SlotBytes
       /\ scull_message_queue = RingAfter(k, g)
  /\ pc = [t \in Threads \cup {Insmod} |-> IF t = Insmod THEN "done" ELSE "idle"]
  /\ loc = [t \in Threads |-> NoLoc]
  /\ calls = 0
  /\ eff = [t \in Threads |-> NoEff]
  /\ ret = [t \in Threads |-> NoRet]
  /\ wlog = <<>>
  /\ rlog = <<>>
  /\ failed = FALSE
  /\ overlap = FALSE

----
\* Bookkeeping shared by the actions.

\* The net change thread t's call has made to the shared state, updated
\* from the step just taken.  A cursor's move is counted at its first
\* assignment, not again at the second, which wraps it.
Account(t) ==
  eff' = [eff EXCEPT ![t] =
            [dw |-> @.dw + (writer' - writer),
             dr |-> @.dr + (reader' - reader),
             dhead |-> @.dhead + (IF head' # head /\ head # RingBytes THEN 1 ELSE 0),
             dend |-> @.dend + (IF end' # end /\ end # RingBytes THEN 1 ELSE 0),
             dmem |-> @.dmem + (IF scull_message_queue' # scull_message_queue THEN 1 ELSE 0)]]

InProgress(S) == {t \in S : pc[t] # "idle"}

\* The driver never looks at the identity of the calling thread, so a new
\* call is made by the first thread of the role that is not inside a call.
Caller(seq, t) ==
  \E i \in DOMAIN seq :
    /\ seq[i] = t
    /\ pc[t] = "idle"
    /\ \A j \in 1 .. i - 1 : pc[seq[j]] # "idle"

\* p += sizeof(ssize_t) + scull_fifo_elemsz (scull.c:104, 139).
Advance(p) == p + SlotBytes

\* p = scull_message_queue + (p - scull_message_queue) % (the ring's size)
\* (scull.c:105, 140).
Wrap(p) == p % RingBytes

\* The cursor is a global variable assigned twice.  After the first
\* assignment it points past the ring if it pointed at the last slot;
\* otherwise the second assignment stores the value it already has, and
\* the call goes on to mutex_unlock.
AfterAdvance(p, wrap, unlock) == IF Advance(p) = Wrap(Advance(p)) THEN unlock ELSE wrap

\* count > dataSize with count a size_t and dataSize a ssize_t: the usual
\* arithmetic conversions make dataSize unsigned, so a negative dataSize is
\* larger than every count (scull.c:93).
UGt(count, dataSize) == IF dataSize < 0 THEN FALSE ELSE count > dataSize

\* The i-th byte at dataPtr: payload of the slot, then whatever follows it.
ByteAt(p, i) == IF i <= scull_fifo_elemsz THEN scull_message_queue[p].data[i] ELSE 0 - i

----
\* scull_read

\* scull.c:82-83: the head pointer and the head slot's length are read
\* before any semaphore or mutex is taken.
ReadCall(t, count) ==
  /\ Caller(ReaderSeq, t)
  /\ pc[Insmod] = "done"
  /\ calls' = calls + 1
  /\ loc' = [loc EXCEPT ![t] = [dataPtr |-> head, dataSize |-> scull_message_queue[head].len,
                                count |-> count, buf |-> <<>>, req |-> count,
                                id |-> calls + 1, headLen |-> 0]]
  /\ pc' = [pc EXCEPT ![t] = "r_down"]
  /\ eff' = [eff EXCEPT ![t] = NoEff]
  /\ overlap' = (overlap \/ InProgress(Readers) # {})
  /\ UNCHANGED <<shared, ret, wlog, rlog, failed>>


\* down_interruptible(&reader) returns 0 (scull.c:86, first operand).
ReadDown(t) ==
  /\ pc[t] = "r_down"
  /\ reader > 0
  /\ reader' = reader - 1
  /\ pc' = [pc EXCEPT ![t] = "r_lock"]
  /\ UNCHANGED <<writer, scull_mutex, head, end, scull_message_queue, loc, calls, ret,
                 wlog, rlog, failed, overlap>>
  /\ Account(t)

\* down_interruptible(&reader) is interrupted while it waits: up(&writer);
\* return -ERESTARTSYS (scull.c:86-89).
ReadDownIntr(t) ==
  /\ pc[t] = "r_down"
  /\ reader = 0
  /\ writer' = writer + 1
  /\ pc' = [pc EXCEPT ![t] = "idle"]
  /\ loc' = [loc EXCEPT ![t] = NoLoc]
  /\ ret' = [ret EXCEPT ![t] = [code |-> "ERESTARTSYS", why |-> "sem"]]
  /\ failed' = TRUE
  /\ UNCHANGED <<reader, scull_mutex, head, end, scull_message_queue, calls, wlog, rlog, overlap>>
  /\ Account(t)

\* mutex_lock_interruptible(&scull_mutex) returns 0 (scull.c:86, second operand).
ReadLock(t) ==
  /\ pc[t] = "r_lock"
  /\ scull_mutex = Free
  /\ scull_mutex' = t
  /\ pc' = [pc EXCEPT ![t] = "r_copy"]
  /\ UNCHANGED <<writer, reader, head, end, scull_message_queue, loc, calls, ret,
                 wlog, rlog, failed, overlap>>
  /\ Account(t)

\* mutex_lock_interruptible is interrupted while it waits for the owner:
\* up(&writer); return -ERESTARTSYS (scull.c:86-89).
ReadLockIntr(t) ==
  /\ pc[t] = "r_lock"
  /\ scull_mutex # Free
  /\ writer' = writer + 1
  /\ pc' = [pc EXCEPT ![t] = "idle"]
  /\ loc' = [loc EXCEPT ![t] = NoLoc]
  /\ ret' = [ret EXCEPT ![t] = [code |-> "ERESTARTSYS", why |-> "lock"]]
  /\ failed' = TRUE
  /\ UNCHANGED <<reader, scull_mutex, head, end, scull_message_queue, calls, wlog, rlog, overlap>>
  /\ Account(t)

\* count clamped by the length read at the call (scull.c:93).
ReadClamp(count, dataSize) == IF UGt(count, dataSize) THEN dataSize ELSE count

\* copy_to_user succeeds; head moves to the next slot (scull.c:93-105).
\* The bytes come from dataPtr, the head slot as it was at the call.
ReadCopy(t) ==
  /\ pc[t] = "r_copy"
  /\ LET n == ReadClamp(loc[t].count, loc[t].dataSize)
     IN loc' = [loc EXCEPT ![t].count = n,
                           ![t].buf = [i \in 1 .. n |-> ByteAt(loc[t].dataPtr, i)],
                           ![t].headLen = scull_message_queue[head].len]
  /\ head' = Advance(head)
  /\ pc' = [pc EXCEPT ![t] = AfterAdvance(head, "r_wrap", "r_unlock")]
  /\ UNCHANGED <<writer, reader, scull_mutex, end, scull_message_queue, calls, ret,
                 wlog, rlog, failed, overlap>>
  /\ Account(t)

\* head = scull_message_queue + (head - scull_message_queue) % ...
\* (scull.c:105).
ReadWrap(t) ==
  /\ pc[t] = "r_wrap"
  /\ head' = Wrap(head)
  /\ pc' = [pc EXCEPT ![t] = "r_unlock"]
  /\ UNCHANGED <<writer, reader, scull_mutex, end, scull_message_queue, loc, calls,
                 ret, wlog, rlog, failed, overlap>>
  /\ Account(t)

\* copy_to_user fails (the destination is not writable): up(&writer)
\* (scull.c:96-98).
ReadCopyFault(t) ==
  /\ pc[t] = "r_copy"
  /\ writer' = writer + 1
  /\ pc' = [pc EXCEPT ![t] = "r_fault_unlock"]
  /\ failed' = TRUE
  /\ UNCHANGED <<reader, scull_mutex, head, end, scull_message_queue, loc, calls, ret,
                 wlog, rlog, overlap>>
  /\ Account(t)

\* Mutant of ReadFaultUnlock: the fault path returns with the mutex held.
ReadFaultUnlock_KeepsLock(t) ==
  /\ pc[t] = "r_fault_unlock"
  /\ pc' = [pc EXCEPT ![t] = "idle"]
  /\ ret' = [ret EXCEPT ![t] = [code |-> "EFAULT", why |-> "copy"]]
  /\ loc' = [loc EXCEPT ![t] = NoLoc]
  /\ UNCHANGED <<writer, reader, scull_mutex, head, end, scull_message_queue,
                 calls, wlog, rlog, failed, overlap>>
  /\ Account(t)

\* mutex_unlock(&scull_mutex); return -EFAULT (scull.c:99-100).
ReadFaultUnlock(t) ==
  /\ pc[t] = "r_fault_unlock"
  /\ scull_mutex' = Free
  /\ pc' = [pc EXCEPT ![t] = "idle"]
  /\ ret' = [ret EXCEPT ![t] = [code |-> "EFAULT", why |-> "copy"]]
  /\ loc' = [loc EXCEPT ![t] = NoLoc]
  /\ UNCHANGED <<writer, reader, head, end, scull_message_queue, calls, wlog, rlog,
                 failed, overlap>>
  /\ Account(t)

\* mutex_unlock(&scull_mutex) (scull.c:108).
ReadUnlock(t) ==
  /\ pc[t] = "r_unlock"
  /\ scull_mutex' = Free
  /\ pc' = [pc EXCEPT ![t] = "r_up"]
  /\ UNCHANGED <<writer, reader, head, end, scull_message_queue, loc, calls, ret,
                 wlog, rlog, failed, overlap>>
  /\ Account(t)

\* Mutant of ReadUp: the read returns without up(&writer).
ReadUp_NoRelease(t) ==
  /\ pc[t] = "r_up"
  /\ writer' = writer
  /\ pc' = [pc EXCEPT ![t] = "idle"]
  /\ ret' = [ret EXCEPT ![t] = [code |-> "ok", why |-> "none"]]
  /\ rlog' = Append(rlog, [req |-> loc[t].req, n |-> loc[t].count,
                           data |-> loc[t].buf, headLen |-> loc[t].headLen])
  /\ loc' = [loc EXCEPT ![t] = NoLoc]
  /\ UNCHANGED <<reader, scull_mutex, head, end, scull_message_queue, calls, wlog,
                 failed, overlap>>
  /\ Account(t)

\* up(&writer); return count (scull.c:109-112).
ReadUp(t) ==
  /\ pc[t] = "r_up"
  /\ writer' = writer + 1
  /\ pc' = [pc EXCEPT ![t] = "idle"]
  /\ ret' = [ret EXCEPT ![t] = [code |-> "ok", why |-> "none"]]
  /\ rlog' = Append(rlog, [req |-> loc[t].req, n |-> loc[t].count,
                           data |-> loc[t].buf, headLen |-> loc[t].headLen])
  /\ loc' = [loc EXCEPT ![t] = NoLoc]
  /\ UNCHANGED <<reader, scull_mutex, head, end, scull_message_queue, calls, wlog,
                 failed, overlap>>
  /\ Account(t)

----
\* scull_write

\* scull.c:118-119: the end pointer is read before any semaphore or mutex
\* is taken.  buf holds count bytes that identify this call.
WriteCall(t, count) ==
  /\ Caller(WriterSeq, t)
  /\ pc[Insmod] = "done"
  /\ calls' = calls + 1
  /\ loc' = [loc EXCEPT ![t] = [dataPtr |-> end, dataSize |-> 0, count |-> count,
                                buf |-> UserBuf(calls + 1, count), req |-> count,
                                id |-> calls + 1, headLen |-> 0]]
  /\ pc' = [pc EXCEPT ![t] = "w_down"]
  /\ eff' = [eff EXCEPT ![t] = NoEff]
  /\ overlap' = (overlap \/ InProgress(Writers) # {})
  /\ UNCHANGED <<shared, ret, wlog, rlog, failed>>

\* Mutant of WriteDown: the semaphore admits a writer when its count is 0.
WriteDown_OffByOne(t) ==
  /\ pc[t] = "w_down"
  /\ writer >= 0
  /\ writer' = writer - 1
  /\ pc' = [pc EXCEPT ![t] = "w_lock"]
  /\ UNCHANGED <<reader, scull_mutex, head, end, scull_message_queue, loc, calls, ret,
                 wlog, rlog, failed, overlap>>
  /\ Account(t)

\* down_interruptible(&writer) returns 0 (scull.c:122).
WriteDown(t) ==
  /\ pc[t] = "w_down"
  /\ writer > 0
  /\ writer' = writer - 1
  /\ pc' = [pc EXCEPT ![t] = "w_lock"]
  /\ UNCHANGED <<reader, scull_mutex, head, end, scull_message_queue, loc, calls, ret,
                 wlog, rlog, failed, overlap>>
  /\ Account(t)

\* Mutant of WriteDownIntr: the interrupted wait releases a filled permit,
\* as the interrupted mutex wait does.
WriteDownIntr_Release(t) ==
  /\ pc[t] = "w_down"
  /\ writer = 0
  /\ reader' = reader + 1
  /\ pc' = [pc EXCEPT ![t] = "idle"]
  /\ loc' = [loc EXCEPT ![t] = NoLoc]
  /\ ret' = [ret EXCEPT ![t] = [code |-> "ERESTARTSYS", why |-> "sem"]]
  /\ failed' = TRUE
  /\ UNCHANGED <<writer, scull_mutex, head, end, scull_message_queue, calls,
                 wlog, rlog, overlap>>
  /\ Account(t)

\* down_interruptible(&writer) is interrupted while it waits:
\* return -ERESTARTSYS (scull.c:122-125).
WriteDownIntr(t) ==
  /\ pc[t] = "w_down"
  /\ writer = 0
  /\ pc' = [pc EXCEPT ![t] = "idle"]
  /\ loc' = [loc EXCEPT ![t] = NoLoc]
  /\ ret' = [ret EXCEPT ![t] = [code |-> "ERESTARTSYS", why |-> "sem"]]
  /\ failed' = TRUE
  /\ UNCHANGED <<writer, reader, scull_mutex, head, end, scull_message_queue, calls,
                 wlog, rlog, overlap>>
  /\ Account(t)

\* Mutant of WriteLock: the mutex is taken without waiting for its owner.
WriteLock_NoWait(t) ==
  /\ pc[t] = "w_lock"
  /\ scull_mutex' = t
  /\ pc' = [pc EXCEPT ![t] = "w_copy"]
  /\ UNCHANGED <<writer, reader, head, end, scull_message_queue, loc, calls, ret,
                 wlog, rlog, failed, overlap>>
  /\ Account(t)

\* mutex_lock_interruptible(&scull_mutex) returns 0 (scull.c:128).
WriteLock(t) ==
  /\ pc[t] = "w_lock"
  /\ scull_mutex = Free
  /\ scull_mutex' = t
  /\ pc' = [pc EXCEPT ![t] = "w_copy"]
  /\ UNCHANGED <<writer, reader, head, end, scull_message_queue, loc, calls, ret,
                 wlog, rlog, failed, overlap>>
  /\ Account(t)

\* mutex_lock_interruptible is interrupted while it waits for the owner:
\* up(&reader); return -ERESTARTSYS (scull.c:128-132).
WriteLockIntr(t) ==
  /\ pc[t] = "w_lock"
  /\ scull_mutex # Free
  /\ reader' = reader + 1
  /\ pc' = [pc EXCEPT ![t] = "idle"]
  /\ loc' = [loc EXCEPT ![t] = NoLoc]
  /\ ret' = [ret EXCEPT ![t] = [code |-> "ERESTARTSYS", why |-> "lock"]]
  /\ failed' = TRUE
  /\ UNCHANGED <<writer, scull_mutex, head, end, scull_message_queue, calls, wlog, rlog, overlap>>
  /\ Account(t)

\* count clamped to the element size (scull.c:135).
WriteClamp(count) == IF count > scull_fifo_elemsz THEN scull_fifo_elemsz ELSE count

\* copy_from_user succeeds: the bytes go to dataPtr and the length to
\* sizePtr, both the end slot as it was at the call; end moves to the next
\* slot (scull.c:135-140).
WriteCopy(t) ==
  /\ pc[t] = "w_copy"
  /\ LET n == WriteClamp(loc[t].count)
         p == loc[t].dataPtr
     IN /\ loc' = [loc EXCEPT ![t].count = n]
        /\ scull_message_queue' = [scull_message_queue EXCEPT ![p] =
                     [len |-> n,
                      data |-> [i \in 1 .. scull_fifo_elemsz |->
                                  IF i <= n THEN loc[t].buf[i] ELSE @.data[i]]]]
  /\ end' = Advance(end)
  /\ pc' = [pc EXCEPT ![t] = AfterAdvance(end, "w_wrap", "w_unlock")]
  /\ UNCHANGED <<writer, reader, scull_mutex, head, calls, ret,
                 wlog, rlog, failed, overlap>>
  /\ Account(t)

\* end = scull_message_queue + (end - scull_message_queue) % ...
\* (scull.c:140).
WriteWrap(t) ==
  /\ pc[t] = "w_wrap"
  /\ end' = Wrap(end)
  /\ pc' = [pc EXCEPT ![t] = "w_unlock"]
  /\ UNCHANGED <<writer, reader, scull_mutex, head, scull_message_queue, loc, calls,
                 ret, wlog, rlog, failed, overlap>>
  /\ Account(t)

\* copy_from_user fails (the source is not readable): count = -EFAULT
\* (scull.c:135-136, 142-145).
WriteCopyFault(t) ==
  /\ pc[t] = "w_copy"
  /\ loc' = [loc EXCEPT ![t].count = 0 - EFAULT]
  /\ pc' = [pc EXCEPT ![t] = "w_unlock"]
  /\ failed' = TRUE
  /\ UNCHANGED <<writer, reader, scull_mutex, head, end, scull_message_queue, calls, ret,
                 wlog, rlog, overlap>>
  /\ Account(t)

\* mutex_unlock(&scull_mutex) (scull.c:147).
WriteUnlock(t) ==
  /\ pc[t] = "w_unlock"
  /\ scull_mutex' = Free
  /\ pc' = [pc EXCEPT ![t] = "w_up"]
  /\ UNCHANGED <<writer, reader, head, end, scull_message_queue, loc, calls, ret,
                 wlog, rlog, failed, overlap>>
  /\ Account(t)

\* up(&reader); return count (scull.c:148-150): the clamped length, or
\* -EFAULT when the copy failed.
WriteUp(t) ==
  /\ pc[t] = "w_up"
  /\ reader' = reader + 1
  /\ pc' = [pc EXCEPT ![t] = "idle"]
  /\ IF loc[t].count < 0
     THEN /\ ret' = [ret EXCEPT ![t] = [code |-> "EFAULT", why |-> "copy"]]
          /\ wlog' = wlog
     ELSE /\ ret' = [ret EXCEPT ![t] = [code |-> "ok", why |-> "none"]]
          /\ wlog' = Append(wlog, [n |-> loc[t].count,
                                   data |-> SubSeq(loc[t].buf, 1, loc[t].count),
                                   req |-> loc[t].req, src |-> loc[t].buf])
  /\ loc' = [loc EXCEPT ![t] = NoLoc]
  /\ UNCHANGED <<writer, scull_mutex, head, end, scull_message_queue, calls, rlog,
                 failed, overlap>>
  /\ Account(t)

----
Next ==
  \/ \E t \in Readers :
       \/ \E count \in ReadCounts : calls < MaxCalls /\ ReadCall(t, count)
       \/ ReadDown(t)
       \/ ReadDownIntr(t)
       \/ ReadLock(t)
       \/ ReadLockIntr(t)
       \/ ReadCopy(t)
       \/ ReadWrap(t)
       \/ ReadCopyFault(t)
       \/ ReadFaultUnlock(t)
       \/ ReadUnlock(t)
       \/ ReadUp(t)
  \/ \E t \in Writers :
       \/ \E count \in WriteCounts : calls < MaxCalls /\ WriteCall(t, count)
       \/ WriteDown(t)
       \/ WriteDownIntr(t)
       \/ WriteLock(t)
       \/ WriteLockIntr(t)
       \/ WriteCopy(t)
       \/ WriteWrap(t)
       \/ WriteCopyFault(t)
       \/ WriteUnlock(t)
       \/ WriteUp(t)

Spec == Init /\ [][Next]_vars

----
\* The driver with no signal and no faulting user buffer, under a fair
\* scheduler.

\* Calls enough to fill the ring, block one more write and read once.
LiveCalls == scull_fifo_size + 2

\* The count of a call plays no part in its waiting: every call asks for
\* one byte more than a slot holds.
LiveCounts == {scull_fifo_elemsz + 1}

\* The kernel semaphore queues its sleepers first-in first-out and up()
\* hands the permit to the first of them (down_interruptible at
\* scull.c:86, 122); calls are taken to reach it in the order they were
\* made.  FirstAt(S, at, t): no thread of S waiting at statement at was
\* called before t.
FirstAt(S, at, t) == \A u \in S : pc[u] = at => loc[u].id >= loc[t].id

\* A step of thread t's call after the call itself.
StepLive(t) ==
  \/ /\ t \in Readers
     /\ \/ FirstAt(Readers, "r_down", t) /\ ReadDown(t)
        \/ ReadLock(t)
        \/ ReadCopy(t)
        \/ ReadWrap(t)
        \/ ReadUnlock(t)
        \/ ReadUp(t)
  \/ /\ t \in Writers
     /\ \/ FirstAt(Writers, "w_down", t) /\ WriteDown(t)
        \/ WriteLock(t)
        \/ WriteCopy(t)
        \/ WriteWrap(t)
        \/ WriteUnlock(t)
        \/ WriteUp(t)

NextLive ==
  \/ \E t \in Readers, count \in LiveCounts : calls < LiveCalls /\ ReadCall(t, count)
  \/ \E t \in Writers, count \in LiveCounts : calls < LiveCalls /\ WriteCall(t, count)
  \/ \E t \in Threads : StepLive(t)

\* The queue as scull_init_module leaves it (scull.c:254-255).
InitLive == Init /\ head = 0

\* The scheduler does not leave every thread that can take a step of its
\* call waiting forever.  Calls themselves are not forced.
SpecLive == InitLive /\ [][NextLive]_vars /\ WF_vars(\E t \in Threads : StepLive(t))

----
\* scull_init_module, statement by statement.

\* The module's static storage when scull_init_module is entered: the
\* pointers are NULL, the semaphore counts 0, the mutex unlocked
\* (scull.c:53-57).
InitLoad ==
  /\ writer = 0
  /\ reader = 0
  /\ scull_mutex = Free
  /\ head = Null
  /\ end = Null
  /\ scull_message_queue = <<>>
  /\ pc = [t \in Threads \cup {Insmod} |-> IF t = Insmod THEN "register" ELSE "idle"]
  /\ loc = [t \in Threads |-> NoLoc]
  /\ calls = 0
  /\ eff = [t \in Threads |-> NoEff]
  /\ ret = [t \in Threads |-> NoRet]
  /\ wlog = <<>>
  /\ rlog = <<>>
  /\ failed = FALSE
  /\ overlap = FALSE

\* scull_init_module moves from statement from to statement to and changes
\* nothing else.
InsmodGoto(from, to) ==
  /\ pc[Insmod] = from
  /\ pc' = [pc EXCEPT ![Insmod] = to]
  /\ UNCHANGED <<writer, reader, scull_mutex, head, end, scull_message_queue,
                 loc, calls, eff, ret, wlog, rlog, failed, overlap>>

\* register_chrdev_region / alloc_chrdev_region succeeds (scull.c:226-236).
InsmodRegister == InsmodGoto("register", "cdev_add")

\* It fails: return result, without cleanup (scull.c:233-236).
InsmodRegisterFail == InsmodGoto("register", "unloaded")

\* cdev_init, cdev_add succeed: from here on the kernel dispatches calls on
\* the device to scull_fops (scull.c:238-240).
InsmodCdevAdd == InsmodGoto("cdev_add", "kmalloc")

\* cdev_add fails: goto fail (scull.c:242-245).
InsmodCdevAddFail == InsmodGoto("cdev_add", "fail")

\* kmalloc returns the ring, its content not initialized (scull.c:248).
InsmodKmalloc ==
  /\ pc[Insmod] = "kmalloc"
  /\ \E g \in GarbageLens : scull_message_queue' = RingAfter(0, g)
  /\ pc' = [pc EXCEPT ![Insmod] = "cursors"]
  /\ UNCHANGED <<writer, reader, scull_mutex, head, end, loc, calls, eff, ret,
                 wlog, rlog, failed, overlap>>

\* kmalloc returns NULL: goto fail, with the device added
\* (scull.c:249-253).
InsmodKmallocFail == InsmodGoto("kmalloc", "fail_live")

\* head = scull_message_queue; end = scull_message_queue (scull.c:254-255).
InsmodCursors ==
  /\ pc[Insmod] = "cursors"
  /\ head' = 0
  /\ end' = 0
  /\ pc' = [pc EXCEPT ![Insmod] = "sema_reader"]
  /\ UNCHANGED <<writer, reader, scull_mutex, scull_message_queue, loc, calls,
                 eff, ret, wlog, rlog, failed, overlap>>

\* sema_init(&reader, 0) (scull.c:258).
InsmodSemaReader ==
  /\ pc[Insmod] = "sema_reader"
  /\ reader' = 0
  /\ pc' = [pc EXCEPT ![Insmod] = "sema_writer"]
  /\ UNCHANGED <<writer, scull_mutex, head, end, scull_message_queue, loc, calls,
                 eff, ret, wlog, rlog, failed, overlap>>

\* sema_init(&writer, scull_fifo_size); return 0 (scull.c:259-264).
InsmodSemaWriter ==
  /\ pc[Insmod] = "sema_writer"
  /\ writer' = scull_fifo_size
  /\ pc' = [pc EXCEPT ![Insmod] = "done"]
  /\ UNCHANGED <<reader, scull_mutex, head, end, scull_message_queue, loc, calls,
                 eff, ret, wlog, rlog, failed, overlap>>

\* fail: scull_cleanup_module() frees the ring (NULL here), deletes the
\* device and gives back the region; return result (scull.c:203-215,
\* 266-268).
InsmodCleanup ==
  \/ InsmodGoto("fail", "unloaded")
  \/ InsmodGoto("fail_live", "unloaded")

\* The device has been added and not deleted: scull_read and scull_write
\* can be called.
Live == pc[Insmod] \in {"kmalloc", "cursors", "sema_reader", "sema_writer",
                        "fail_live", "done"}

\* A read or write is called after cdev_add and before scull_init_module
\* has returned.  It runs on NULL pointers or semaphores that sema_init has
\* not set up; what it does from there is undefined and not followed.
EarlyCall(t) ==
  /\ Live
  /\ pc[Insmod] # "done"
  /\ \/ Caller(ReaderSeq, t)
     \/ Caller(WriterSeq, t)
  /\ calls' = calls + 1
  /\ pc' = [pc EXCEPT ![t] = "early"]
  /\ UNCHANGED <<writer, reader, scull_mutex, head, end, scull_message_queue,
                 loc, eff, ret, wlog, rlog, failed, overlap>>

\* The module is loaded; once scull_init_module has returned 0 the driver
\* serves calls, here without signals and faults.
NextInit ==
  \/ InsmodRegister
  \/ InsmodRegisterFail
  \/ InsmodCdevAdd
  \/ InsmodCdevAddFail
  \/ InsmodKmalloc
  \/ InsmodKmallocFail
  \/ InsmodCursors
  \/ InsmodSemaReader
  \/ InsmodSemaWriter
  \/ InsmodCleanup
  \/ \E t \in Threads : calls < LiveCalls /\ EarlyCall(t)
  \/ NextLive

SpecInit == InitLoad /\ [][NextInit]_vars

----
\* Properties

TypeOK ==
  /\ writer \in Int /\ reader \in Int
  /\ scull_mutex \in Threads \cup {Free}
  /\ head \in MemOffsets /\ end \in MemOffsets
  /\ DOMAIN scull_message_queue = MemOffsets
  /\ calls \in 0 .. MaxCalls
  /\ failed \in BOOLEAN /\ overlap \in BOOLEAN

\* No read or write call is in progress.
Quiescent == \A t \in Threads : pc[t] = "idle"

\* Thread t is outside a call and its last call ended the way `why` says:
\* "sem" (semaphore wait interrupted), "lock" (mutex wait interrupted),
\* "copy" (transfer failed), "none" (success).
Returned(t, why) == pc[t] = "idle" /\ ret[t].code # "none" /\ ret[t].why = why

\* The call that wrote or returned these bytes: UserBuf puts the call's
\* number in every byte; garbage bytes give 0.
RecId(data) == IF data = <<>> THEN 0 ELSE data[1] \div 10

\* Writers whose copy_from_user has succeeded and that have not returned yet.
Depositing ==
  {t \in Writers : pc[t] \in {"w_wrap", "w_unlock", "w_up"} /\ loc[t].count >= 0}

\* C1: whenever no call is in progress, writer + reader = scull_fifo_size.
C1_CountsSumToCapacity == Quiescent => writer + reader = scull_fifo_size

\* C2: with writes serialized, reads serialized, no fault or interruption
\* and every read asking for at least elemsz bytes, the i-th successful
\* read returns the length and the bytes accepted by the i-th write.
C2_Fifo ==
  (/\ ~failed
   /\ ~overlap
   /\ \A i \in DOMAIN rlog : rlog[i].req >= scull_fifo_elemsz)
  => \A i \in DOMAIN rlog :
       /\ i <= Len(wlog)
       /\ rlog[i].n = wlog[i].n
       /\ rlog[i].data = wlog[i].data

\* C3: with no fault or interruption, every record a write deposited is
\* returned by exactly one read: no read returns a record that was never
\* deposited, no two reads return the same record, and a record accepted
\* and not yet returned is still in the ring.
C3_EachRecordReadOnce ==
  ~failed =>
    /\ \A i \in DOMAIN rlog :
         \/ \E k \in DOMAIN wlog : RecId(wlog[k].data) = RecId(rlog[i].data)
         \/ \E t \in Depositing : RecId(loc[t].buf) = RecId(rlog[i].data)
    /\ \A i, j \in DOMAIN rlog :
         i # j => RecId(rlog[i].data) # RecId(rlog[j].data)
    /\ \A k \in DOMAIN wlog :
         \/ \E i \in DOMAIN rlog : RecId(rlog[i].data) = RecId(wlog[k].data)
         \/ \E t \in Readers : pc[t] \in {"r_wrap", "r_unlock", "r_up"}
                               /\ RecId(loc[t].buf) = RecId(wlog[k].data)
         \/ \E p \in SlotOffsets :
              /\ scull_message_queue[p].len = wlog[k].n
              /\ SubSeq(scull_message_queue[p].data, 1, wlog[k].n) = wlog[k].data

\* No read call has been made / no read call has returned.
NoReadCalled == \A t \in Readers : pc[t] = "idle" /\ ret[t].code = "none"
NoReadReturned == \A t \in Readers : ret[t].code = "none"

C5_Emptiness ==
  rlog # <<>> => (wlog # <<>> \/ Depositing # {})

\* C6: a write that returns after copy_from_user failed returns -EFAULT
\* and has changed neither writer nor reader nor end.
C6_WriteFaultRollback ==
  \A t \in Writers :
    Returned(t, "copy") =>
      /\ ret[t].code = "EFAULT"
      /\ eff[t].dw = 0
      /\ eff[t].dr = 0
      /\ eff[t].dend = 0

\* C7: a read that returns after copy_to_user failed returns -EFAULT and
\* has changed neither reader nor writer nor head.
C7_ReadFaultRollback ==
  \A t \in Readers :
    Returned(t, "copy") =>
      /\ ret[t].code = "EFAULT"
      /\ eff[t].dr = 0
      /\ eff[t].dw = 0
      /\ eff[t].dhead = 0

\* C8: a read whose wait on reader was interrupted returns -ERESTARTSYS
\* and has changed no semaphore count, cursor or slot.
C8_ReadSemInterrupted ==
  \A t \in Readers :
    Returned(t, "sem") => (ret[t].code = "ERESTARTSYS" /\ eff[t] = NoEff)

\* C9: a write whose wait on writer was interrupted returns -ERESTARTSYS
\* and has changed no semaphore count, cursor or slot.
C9_WriteSemInterrupted ==
  \A t \in Writers :
    Returned(t, "sem") => (ret[t].code = "ERESTARTSYS" /\ eff[t] = NoEff)

\* A write has returned from an interrupted wait on writer.
C9_Witness == \E t \in Writers : Returned(t, "sem")

\* C10: a call whose wait on the mutex was interrupted returns
\* -ERESTARTSYS with both semaphore counts as it found them.
C10_LockInterrupted ==
  \A t \in Threads :
    Returned(t, "lock") =>
      /\ ret[t].code = "ERESTARTSYS"
      /\ eff[t].dw = 0
      /\ eff[t].dr = 0


Min(a, b) == IF a <= b THEN a ELSE b

\* C11: with writes serialized, reads serialized and no fault or
\* interruption, a write of more than elemsz bytes returns elemsz and
\* accepts the first elemsz bytes of its source, and the read that consumes
\* its record, when it asks for at least elemsz bytes, returns exactly
\* those elemsz bytes.
C11_Truncation ==
  (~failed /\ ~overlap) =>
    \A i \in DOMAIN wlog :
      wlog[i].req > scull_fifo_elemsz =>
        /\ wlog[i].n = scull_fifo_elemsz
        /\ wlog[i].data = SubSeq(wlog[i].src, 1, scull_fifo_elemsz)
        /\ (i \in DOMAIN rlog /\ rlog[i].req >= scull_fifo_elemsz) =>
             /\ rlog[i].n = scull_fifo_elemsz
             /\ rlog[i].data = SubSeq(wlog[i].src, 1, scull_fifo_elemsz)

\* C12: a successful read that finds, under the permit and the mutex, a
\* length L stored by a write in the head slot returns min(req, L).
C12_ReadReturnsMin ==
  \A i \in DOMAIN rlog :
    rlog[i].headLen \in 0 .. scull_fifo_elemsz =>
      rlog[i].n = Min(rlog[i].req, rlog[i].headLen)

\* C19: a successful read transfers at most elemsz bytes and at most the
\* count it was asked for.
C19_ReadBounded ==
  \A i \in DOMAIN rlog :
    /\ rlog[i].n <= scull_fifo_elemsz
    /\ rlog[i].n <= rlog[i].req


\* The statements between mutex_lock_interruptible and mutex_unlock.
InCrit(t) ==
  pc[t] \in {"r_copy", "r_wrap", "r_fault_unlock", "r_unlock", "w_copy", "w_wrap", "w_unlock"}

\* The call of t has taken its permit (reader for a read, writer for a
\* write) and has not returned.
HoldsPermit(t) ==
  pc[t] \in {"r_lock", "r_copy", "r_wrap", "r_fault_unlock", "r_unlock", "r_up",
             "w_lock", "w_copy", "w_wrap", "w_unlock", "w_up"}

\* The step is taken by thread t.
Actor(t) == pc'[t] # pc[t]

\* The slot k places after head.
SlotFromHead(k) == (head + k * SlotBytes) % RingBytes

\* Slot p holds a record that a successful write deposited and no read has
\* returned.
HoldsUnreadRecord(p) ==
  \E i \in DOMAIN wlog :
    /\ scull_message_queue[p].len = wlog[i].n
    /\ SubSeq(scull_message_queue[p].data, 1, wlog[i].n) = wlog[i].data
    /\ \A j \in DOMAIN rlog : RecId(rlog[j].data) # RecId(wlog[i].data)

\* C14: when the mutex is free and no call holds a permit, the distance
\* from head to end is reader modulo the capacity, and each of the reader
\* slots from head on holds a deposited, unread record.
C14_FilledRegion ==
  (scull_mutex = Free /\ \A t \in Threads : ~HoldsPermit(t)) =>
    /\ ((end - head + RingBytes) % RingBytes) \div SlotBytes
         = reader % scull_fifo_size
    /\ \A k \in 0 .. Min(reader, scull_fifo_size) - 1 :
         HoldsUnreadRecord(SlotFromHead(k))

\* C15: a call reads a cursor or a slot (at its first statements and in
\* its copy) only while it holds its permit and the mutex.
C15_AccessUnderLock ==
  [][\A t \in Threads :
       (Actor(t) /\ pc[t] \in {"idle", "r_copy", "w_copy"}) =>
         (HoldsPermit(t) /\ scull_mutex = t)]_vars

\* C16: no thread waits on a semaphore while it holds the mutex, the
\* mutex holder has taken its semaphore before, and at most one thread is
\* between lock and unlock, namely the owner of the mutex.
C16_SemaphoreThenMutex ==
  /\ \A t \in Threads : pc[t] \in {"r_down", "w_down"} => scull_mutex # t
  /\ \A t \in Readers : scull_mutex = t => (HoldsPermit(t) /\ eff[t].dr = 0 - 1)
  /\ \A t \in Writers : scull_mutex = t => (HoldsPermit(t) /\ eff[t].dw = 0 - 1)
  /\ Cardinality({t \in Threads : InCrit(t)}) <= 1
  /\ \A t \in Threads : InCrit(t) => scull_mutex = t

\* One thread is inside the mutex while a second waits for the mutex and a
\* third waits on a semaphore.
C16_Witness ==
  \E t, u, v \in Threads :
    /\ InCrit(t)
    /\ pc[u] \in {"r_lock", "w_lock"}
    /\ pc[v] \in {"r_down", "w_down"}

\* C17, the steps: head moves only in the copy step of a read that holds
\* the mutex and goes on to return its count, end only in the copy step of
\* a write that holds the mutex and has copied, each by one slot modulo the
\* ring; a read changes neither end nor a slot, a write does not change
\* head.
C17_Step ==
  /\ head' # head =>
       /\ head' = (head + SlotBytes) % RingBytes
       /\ \E t \in Readers :
            Actor(t) /\ scull_mutex = t /\ pc[t] \in {"r_copy", "r_wrap"}
  /\ end' # end =>
       /\ end' = (end + SlotBytes) % RingBytes
       /\ \E t \in Writers :
            /\ Actor(t) /\ scull_mutex = t /\ pc[t] \in {"w_copy", "w_wrap"}
            /\ loc'[t].count >= 0
  /\ \A t \in Readers :
       Actor(t) => (end' = end /\ scull_message_queue' = scull_message_queue)
  /\ \A t \in Writers : Actor(t) => head' = head

\* C17, the states: both cursors are slot offsets of the ring, and a call
\* that has returned has moved its cursor once if it succeeded and not at
\* all otherwise.
C17_State ==
  /\ head \in SlotOffsets
  /\ end \in SlotOffsets
  /\ \A t \in Readers :
       (pc[t] = "idle" /\ ret[t].code # "none") =>
         /\ eff[t].dhead = (IF ret[t].code = "ok" THEN 1 ELSE 0)
         /\ eff[t].dend = 0 /\ eff[t].dmem = 0
  /\ \A t \in Writers :
       (pc[t] = "idle" /\ ret[t].code # "none") =>
         /\ eff[t].dend = (IF ret[t].code = "ok" THEN 1 ELSE 0)
         /\ eff[t].dhead = 0

\* C17: the cursors change only as C17_Step says and stay in the ring.
C17_Cursors == [](C17_State) /\ [][C17_Step]_vars

\* The ring has been filled, so end has wrapped, and a read has moved head.
C17_Witness ==
  /\ Len(wlog) = scull_fifo_size
  /\ end = 0
  /\ rlog # <<>>
  /\ head # 0

\* C20: a thread outside a call does not own the mutex, so the mutex is
\* free when no call is in progress; and a thread about to run
\* mutex_unlock owns the mutex.
C20_MutexReleased ==
  /\ \A t \in Threads : pc[t] = "idle" => scull_mutex # t
  /\ Quiescent => scull_mutex = Free
  /\ \A t \in Threads :
       pc[t] \in {"r_fault_unlock", "r_unlock", "w_unlock"} => scull_mutex = t

\* No call is in progress after a read has faulted, a write has been
\* interrupted waiting for the mutex and a write has succeeded.
C20_Witness ==
  /\ Quiescent
  /\ \E t \in Readers : Returned(t, "copy")
  /\ \E t \in Writers : Returned(t, "lock")
  /\ \E t \in Writers : ret[t].code = "ok"


\* C18: a thread is inside a call only when scull_init_module has built
\* the queue (allocated the ring, set the cursors, initialized both
\* semaphores) and returned 0.
C18_ConstructedBeforeUse ==
  \A t \in Threads : pc[t] # "idle" => pc[Insmod] = "done"


\* Reads that have taken a permit of reader, returned or not.
ReadsAdmitted ==
  Len(rlog) + Cardinality({u \in Readers : pc[u] \in {"r_lock", "r_copy", "r_wrap", "r_unlock", "r_up"}})

\* Writes that have taken a permit of writer, returned or not.
WritesAdmitted ==
  Len(wlog) + Cardinality({u \in Writers : pc[u] \in {"w_lock", "w_copy", "w_wrap", "w_unlock", "w_up"}})

\* The threads of S waiting at statement at that were called no later
\* than t, t included.
UpTo(S, at, t) == {u \in S : pc[u] = at /\ loc[u].id <= loc[t].id}

\* C13: with no interruption and no fault, under a fair scheduler: a write
\* waiting for a free slot returns its count once reads have returned for
\* it and for every write waiting before it; a read waiting for a record
\* returns its count once writes have returned for it and for every read
\* waiting before it; and a state with a read and a write both waiting does
\* not last forever.
C13_Liveness ==
  /\ \A t \in Writers :
       (/\ pc[t] = "w_down"
        /\ WritesAdmitted + Cardinality(UpTo(Writers, "w_down", t))
             <= Len(rlog) + scull_fifo_size)
         ~> (pc[t] = "idle" /\ ret[t].code = "ok")
  /\ \A t \in Readers :
       (/\ pc[t] = "r_down"
        /\ ReadsAdmitted + Cardinality(UpTo(Readers, "r_down", t)) <= Len(wlog))
         ~> (pc[t] = "idle" /\ ret[t].code = "ok")
  /\ ((\E t \in Readers : pc[t] = "r_down") /\ (\E t \in Writers : pc[t] = "w_down"))
       ~> ~((\E t \in Readers : pc[t] = "r_down") /\ (\E t \in Writers : pc[t] = "w_down"))

\* The ring is full, a write waits with no free slot, and a read is about
\* to release one.
C13_Witness ==
  /\ Len(wlog) = scull_fifo_size
  /\ writer = 0
  /\ \E t \in Writers : pc[t] = "w_down"
  /\ \E t \in Readers : pc[t] = "r_up"

====
